---- MODULE Spec2Model ----
(***************************************************************************)
(* Model of the two Namecheap DNS tools:                                   *)
(*   add_subdomain.py      the write tool  (fetch, reconcile, push)        *)
(*   check_old_records.py  the read-only inspection tool (fetch, print)    *)
(* One run of one tool is one behaviour.  The registrar (its zone and its  *)
(* HTTP answers) is the environment.                                       *)
(***************************************************************************)
EXTENDS Integers, Sequences, FiniteSets, TLC

VARIABLES
    tool,             \* "add" | "check": which script is running
    pc,               \* position of main()
    exit_status,      \* -1 while running, else the process exit status
    error,            \* kind of the exception that ended the run, or None
    config,           \* dict returned by load_config
    subdomain, sld, tld,  \* result of parse_domain_parts
    ip_address,       \* final IP of the A record (write tool)
    attempt,          \* attempts made so far by the current API call
    outcomes,         \* outcome of every attempt of the current API call
    requests,         \* every HTTP request issued by the run, in order
    get_response,     \* response the transport client returned to get_dns_records
    set_response,     \* response the transport client returned to set_dns_records
    retries_reported, \* the count in "Failed after N retries.", 0 if not raised
    existing_records, \* list returned by get_dns_records
    updated_records,  \* list built by main() for the push
    zone,             \* the registrar's record set for the zone
    zone_at_fetch,    \* the zone as it was when the fetch succeeded
    environ,          \* the .env that load_config read, when observed
    domain_str,       \* the --domain argument, when observed
    ip_arg,           \* the --ip argument, when observed
    answer,           \* the line typed at the prompt, when observed
    external_writes,  \* changes of the zone by others since the run started
    xml_tree,         \* a parsed document, tags as the parser wrote them
    xml_root          \* that document after strip_namespaces

vars == << tool, pc, exit_status, error, config, subdomain, sld, tld,
           ip_address, attempt, outcomes, requests, get_response,
           set_response, retries_reported, existing_records, updated_records,
           zone, zone_at_fetch, environ, domain_str, ip_arg, answer,
           external_writes, xml_tree, xml_root >>

\* What the steps of a run leave alone.
apart == << external_writes, xml_tree, xml_root >>

\* What the run was given from outside.  They are written only by the
\* observing variants of the steps that read them.
inputs == << environ, domain_str, ip_arg, answer >>

-----------------------------------------------------------------------------
(* Python values *)

\* Python's None (no attribute value and no record field is this string).
None == "<None>"

\* Truth value of a str-or-None: None and "" are false.
Truthy(v) == v # None /\ v # ""

\* dict.get(key, default) on an attribute dictionary.
Get(attrib, key, default) ==
    IF key \in DOMAIN attrib THEN attrib[key] ELSE default

\* Elements of a list as a set.
Range(s) == { s[i] : i \in 1..Len(s) }

-----------------------------------------------------------------------------
(* Bounds and program constants *)

\* Largest number of records in the zone at the start of a run.
MaxRecords == 2

\* Largest number of elements of a document given to strip_namespaces alone.
MaxNodes == 3

\* Largest number of changes of the zone by others during one run.
MaxExternalWrites == 1

\* max_retries=3, the default of call_namecheap_api_with_retries.
max_retries == 3

\* Environment fallbacks of load_config (write tool).
FallbackTTL == "1800"
FallbackIP == "1.2.3.4"

-----------------------------------------------------------------------------
(* The registrar's zone *)

HostRecord(h, t, a, m, l) ==
    [HostName |-> h, RecordType |-> t, Address |-> a, MXPref |-> m, TTL |-> l]

\* Records the zone may hold when the run starts.
RecordPool ==
    { HostRecord("dev", "A", "1.1.1.1", "10", "1800"),
      HostRecord("www", "A", "2.2.2.2", "10", "60"),
      HostRecord("dev", "MX", "mail.example.com", "20", "60") }

RECURSIVE SeqsUpTo(_, _)
SeqsUpTo(S, n) ==
    IF n = 0 THEN { << >> }
    ELSE LET shorter == SeqsUpTo(S, n - 1)
         IN  shorter \cup { Append(s, x) : s \in { t \in shorter : Len(t) = n - 1 }, x \in S }

Zones == SeqsUpTo(RecordPool, MaxRecords)

-----------------------------------------------------------------------------
(* XML: xml.etree.ElementTree as the tools use it *)

\* An element tag is a list of tokens; ElementTree writes a namespaced tag
\* as "{uri}local", here << "{", uri, "}", local >>.
NsUri == "http://api.namecheap.com/xml.response"
QName(local) == << "{", NsUri, "}", local >>
Plain(local) == << local >>

\* The tag of an element, in the namespace or not.
Tag(ns, local) == IF ns THEN QName(local) ELSE Plain(local)

\* An element: tag, index of its parent in the document (0 for the root),
\* attribute dictionary and text.  A document lists its elements in
\* document order, the order of Element.iter().
Element(tag, parent, attrib, text) ==
    [tag |-> tag, parent |-> parent, attrib |-> attrib, text |-> text]

NoAttrib == [k \in {} |-> None]

\* A response body: well-formed XML (its elements) or not.
Body(nodes) == [wellformed |-> TRUE, nodes |-> nodes]
MalformedBody == [wellformed |-> FALSE, nodes |-> << >>]

\* '}' in tag
HasBrace(tag) == \E i \in 1..Len(tag) : tag[i] = "}"

\* tag.split('}', 1)[1]: what follows the first '}'.
AfterFirstBrace(tag) ==
    LET first == CHOOSE i \in 1..Len(tag) :
                     /\ tag[i] = "}"
                     /\ \A j \in 1..(i - 1) : tag[j] # "}"
    IN  SubSeq(tag, first + 1, Len(tag))

\* Faulty variant: only the tag of the root is rewritten.
strip_namespaces_root_only(nodes) ==
    [i \in 1..Len(nodes) |->
        IF i = 1 /\ HasBrace(nodes[i].tag)
        THEN [nodes[i] EXCEPT !.tag = AfterFirstBrace(nodes[i].tag)]
        ELSE nodes[i]]

\* strip_namespaces(elem): rewrites the tag of every element of the tree.
strip_namespaces(nodes) ==
    [i \in 1..Len(nodes) |->
        IF HasBrace(nodes[i].tag)
        THEN [nodes[i] EXCEPT !.tag = AfterFirstBrace(nodes[i].tag)]
        ELSE nodes[i]]

\* Indices of the children of element p, in document order.
RECURSIVE ChildrenFrom(_, _, _)
ChildrenFrom(nodes, p, i) ==
    IF i > Len(nodes) THEN << >>
    ELSE IF nodes[i].parent = p
         THEN << i >> \o ChildrenFrom(nodes, p, i + 1)
         ELSE ChildrenFrom(nodes, p, i + 1)
Children(nodes, p) == ChildrenFrom(nodes, p, 1)

\* bool(element): ElementTree's Element is false when it has no children.
ElementTruth(nodes, i) == Len(Children(nodes, i)) # 0

\* root.findall(".//Tag"): indices of the descendants of the root with that
\* tag, in document order (the root itself is not a descendant).
RECURSIVE DescendantsFrom(_, _, _)
DescendantsFrom(nodes, local, i) ==
    IF i > Len(nodes) THEN << >>
    ELSE IF nodes[i].tag = << local >>
         THEN << i >> \o DescendantsFrom(nodes, local, i + 1)
         ELSE DescendantsFrom(nodes, local, i + 1)
FindAll(nodes, local) == DescendantsFrom(nodes, local, 2)

\* root.findall(".//Outer/inner"): the children tagged inner of every
\* descendant tagged Outer.
RECURSIVE ChildrenOfAll(_, _, _)
ChildrenOfAll(nodes, parents, inner) ==
    IF parents = << >> THEN << >>
    ELSE SelectSeq(Children(nodes, Head(parents)),
                   LAMBDA c : nodes[c].tag = << inner >>)
         \o ChildrenOfAll(nodes, Tail(parents), inner)
FindAllPath(nodes, outer, inner) ==
    ChildrenOfAll(nodes, FindAll(nodes, outer), inner)

-----------------------------------------------------------------------------
(* The registrar's answers *)

getHosts == "namecheap.domains.dns.getHosts"
setHosts == "namecheap.domains.dns.setHosts"

HostElement(ns, parent, rec) ==
    Element(Tag(ns, "host"), parent,
            [Name |-> rec.HostName, Type |-> rec.RecordType,
             Address |-> rec.Address, MXPref |-> rec.MXPref, TTL |-> rec.TTL],
            None)

\* The envelope of every answer: ApiResponse > (Errors, CommandResponse).
Envelope(ns, status) ==
    << Element(Tag(ns, "ApiResponse"), 0, [Status |-> status], None),
       Element(Tag(ns, "Errors"), 1, NoAttrib, None),
       Element(Tag(ns, "CommandResponse"), 1, [Type |-> "cmd"], None) >>

\* The getHosts answer that lists the zone.
HostsDocument(ns, recs) ==
    Envelope(ns, "OK")
    \o << Element(Tag(ns, "DomainDNSGetHostsResult"), 3, [Domain |-> "example.com"], None) >>
    \o [i \in 1..Len(recs) |-> HostElement(ns, 4, recs[i])]

\* An answer that reports an error, the Error element below Errors.
ErrorDocument(ns, text) ==
    << Element(Tag(ns, "ApiResponse"), 0, [Status |-> "ERROR"], None),
       Element(Tag(ns, "Errors"), 1, NoAttrib, None),
       Element(Tag(ns, "Error"), 2, [Number |-> "1011102"], text),
       Element(Tag(ns, "CommandResponse"), 1, NoAttrib, None) >>

\* Hosts together with an Error element that has no text.
BlankErrorDocument ==
    << Element(QName("ApiResponse"), 0, [Status |-> "ERROR"], None),
       Element(QName("Errors"), 1, NoAttrib, None),
       Element(QName("Error"), 2, [Number |-> "0"], None),
       Element(QName("CommandResponse"), 1, NoAttrib, None),
       Element(QName("DomainDNSGetHostsResult"), 4, NoAttrib, None),
       HostElement(TRUE, 5, HostRecord("www", "A", "2.2.2.2", "10", "1800")) >>

\* Hosts together with an Error element three levels below the root.
DeepErrorDocument ==
    HostsDocument(TRUE, << HostRecord("www", "A", "2.2.2.2", "10", "1800") >>)
    \o << Element(QName("Warnings"), 4, NoAttrib, None),
          Element(QName("Error"), 6, NoAttrib, "Too many requests") >>

\* Host elements that lack attributes.
SparseHostsDocument ==
    Envelope(TRUE, "OK")
    \o << Element(QName("DomainDNSGetHostsResult"), 3, NoAttrib, None),
          Element(QName("host"), 4,
                  [Type |-> "A", Address |-> "3.3.3.3", MXPref |-> "10", TTL |-> "60"],
                  None),
          Element(QName("host"), 4,
                  [Name |-> "dev", Type |-> "A", Address |-> "1.1.1.1"], None),
          Element(QName("host"), 4,
                  [Name |-> "", Type |-> "TXT", Address |-> "v=spf1", MXPref |-> "",
                   TTL |-> ""],
                  None) >>

\* Bodies the registrar may send with status 200 to getHosts.
GetHostsBodies(z) ==
    { Body(HostsDocument(TRUE, z)),
      Body(HostsDocument(FALSE, << HostRecord("www", "A", "2.2.2.2", "10", "1800") >>)),
      Body(ErrorDocument(TRUE, "API Key is invalid or API access has not been enabled")),
      Body(BlankErrorDocument),
      Body(DeepErrorDocument),
      Body(SparseHostsDocument),
      MalformedBody }

\* A setHosts answer: the result element with the given attributes, with or
\* without a child element.
SetHostsDocument(ns, attrib, withChild) ==
    Envelope(ns, "OK")
    \o << Element(Tag(ns, "DomainDNSSetHostsResult"), 3, attrib, None) >>
    \o (IF withChild THEN << Element(Tag(ns, "Warnings"), 4, NoAttrib, None) >> ELSE << >>)

\* Attribute dictionaries the result element may carry.
SetResultAttribs ==
    { [Domain |-> "example.com", IsSuccess |-> "true"],
      [Domain |-> "example.com", IsSuccess |-> "false"],
      [Domain |-> "example.com"] }

\* Bodies the registrar may send with status 200 to setHosts.
SetHostsBodies ==
    { Body(SetHostsDocument(TRUE, a, c)) : a \in SetResultAttribs, c \in BOOLEAN }
    \cup { Body(SetHostsDocument(FALSE, [IsSuccess |-> "true"], TRUE)),
           Body(ErrorDocument(TRUE, "Domain name not found")),
           Body(Envelope(TRUE, "OK")),
           MalformedBody }

-----------------------------------------------------------------------------
(* Configuration and the command line *)

EnvNames ==
    { "NAMECHEAP_API_URL", "NAMECHEAP_API_USER", "NAMECHEAP_API_KEY",
      "NAMECHEAP_USERNAME", "NAMECHEAP_CLIENT_IP", "DEFAULT_TTL", "DEFAULT_IP" }

\* A complete .env; a variable that is not set is None.
BaseEnv ==
    [k \in EnvNames |->
        CASE k = "NAMECHEAP_API_URL"   -> "https://api.namecheap.com/xml.response"
          [] k = "NAMECHEAP_API_USER"  -> "user"
          [] k = "NAMECHEAP_API_KEY"   -> "key"
          [] k = "NAMECHEAP_USERNAME"  -> "user"
          [] k = "NAMECHEAP_CLIENT_IP" -> "203.0.113.7"
          [] k = "DEFAULT_TTL"         -> "1800"
          [] k = "DEFAULT_IP"          -> "1.2.3.4"]

\* The complete .env, and every .env with one variable unset or empty.
Envs == { BaseEnv } \cup { [BaseEnv EXCEPT ![k] = v] : k \in EnvNames, v \in { None, "" } }

\* os.getenv(name, default)
Getenv(env, name, default) == IF env[name] = None THEN default ELSE env[name]

\* [k for k, v in config.items() if not v]
MissingKeys(cfg) == { k \in DOMAIN cfg : ~Truthy(cfg[k]) }

\* Faulty variant: the client IP has a fallback too.
add_load_config_client_ip_fallback(env) ==
    [API_URL     |-> Getenv(env, "NAMECHEAP_API_URL", None),
     API_USER    |-> Getenv(env, "NAMECHEAP_API_USER", None),
     API_KEY     |-> Getenv(env, "NAMECHEAP_API_KEY", None),
     USERNAME    |-> Getenv(env, "NAMECHEAP_USERNAME", None),
     CLIENT_IP   |-> Getenv(env, "NAMECHEAP_CLIENT_IP", "127.0.0.1"),
     DEFAULT_TTL |-> Getenv(env, "DEFAULT_TTL", FallbackTTL),
     DEFAULT_IP  |-> Getenv(env, "DEFAULT_IP", FallbackIP)]

\* add_subdomain.load_config
add_load_config(env) ==
    [API_URL     |-> Getenv(env, "NAMECHEAP_API_URL", None),
     API_USER    |-> Getenv(env, "NAMECHEAP_API_USER", None),
     API_KEY     |-> Getenv(env, "NAMECHEAP_API_KEY", None),
     USERNAME    |-> Getenv(env, "NAMECHEAP_USERNAME", None),
     CLIENT_IP   |-> Getenv(env, "NAMECHEAP_CLIENT_IP", None),
     DEFAULT_TTL |-> Getenv(env, "DEFAULT_TTL", FallbackTTL),
     DEFAULT_IP  |-> Getenv(env, "DEFAULT_IP", FallbackIP)]

\* check_old_records.load_config
check_load_config(env) ==
    [API_URL     |-> Getenv(env, "NAMECHEAP_API_URL", None),
     API_USER    |-> Getenv(env, "NAMECHEAP_API_USER", None),
     API_KEY     |-> Getenv(env, "NAMECHEAP_API_KEY", None),
     USERNAME    |-> Getenv(env, "NAMECHEAP_USERNAME", None),
     CLIENT_IP   |-> Getenv(env, "NAMECHEAP_CLIENT_IP", None)]

\* The configuration before load_config has run.
NoConfig == [k \in { "API_URL" } |-> None]

\* Domain strings of the command line, as their dot-separated labels.
DomainInputs ==
    { << "dev", "example", "com" >>,
      << "api", "example", "co", "uk" >>,
      << "example", "com" >>,
      << "co", "uk" >>,
      << "localhost" >> }

\* The public suffix list, as far as the inputs need it.
PublicSuffixes == { << "com" >>, << "uk" >>, << "co", "uk" >> }

\* ".".join(labels)
RECURSIVE Join(_)
Join(labels) ==
    IF labels = << >> THEN ""
    ELSE IF Len(labels) = 1 THEN labels[1]
    ELSE labels[1] \o "." \o Join(Tail(labels))

\* tldextract.extract: the longest public suffix, the label before it, and
\* everything before that.
Extract(labels) ==
    LET n == Len(labels)
        ks == { k \in 1..n : SubSeq(labels, n - k + 1, n) \in PublicSuffixes }
        k == IF ks = {} THEN 0 ELSE CHOOSE x \in ks : \A y \in ks : y <= x
    IN  IF k = 0
        THEN [subdomain |-> Join(SubSeq(labels, 1, n - 1)),
              domain |-> labels[n], suffix |-> ""]
        ELSE [subdomain |-> Join(SubSeq(labels, 1, n - k - 1)),
              domain |-> IF n > k THEN labels[n - k] ELSE "",
              suffix |-> Join(SubSeq(labels, n - k + 1, n))]

\* Faulty variant: the subdomain is not asked for.
add_parse_domain_error_allowing_bare(ext) ==
    IF ~Truthy(ext.domain) \/ ~Truthy(ext.suffix) THEN "InvalidDomain" ELSE None

\* add_subdomain.parse_domain_parts: the error it raises, or None.
add_parse_domain_error(ext) ==
    IF ~Truthy(ext.domain) \/ ~Truthy(ext.suffix) THEN "InvalidDomain"
    ELSE IF ~Truthy(ext.subdomain) THEN "MissingSubdomain"
    ELSE None

\* check_old_records.parse_domain_parts: the error it raises, or None.
check_parse_domain_error(ext) ==
    IF ~Truthy(ext.domain) \/ ~Truthy(ext.suffix) THEN "InvalidDomain"
    ELSE None

\* --ip values of the command line (None: not given).
IpArgs == { None, "9.9.9.9" }

\* Lines typed at the confirmation prompt, character by character.
Answers ==
    { << "y" >>, << "Y", "E", "S" >>, << " ", "y", "e", "s", " " >>,
      << "n" >>, << >>, << "y", " ", "e", "s" >>, << "o", "k" >> }

\* str.strip(): without its leading and trailing blanks.
RECURSIVE Strip(_)
Strip(line) ==
    IF line = << >> THEN line
    ELSE IF Head(line) = " " THEN Strip(Tail(line))
    ELSE IF line[Len(line)] = " " THEN Strip(SubSeq(line, 1, Len(line) - 1))
    ELSE line

\* str.lower()
Lower(line) ==
    [i \in 1..Len(line) |->
        CASE line[i] = "Y" -> "y"
          [] line[i] = "E" -> "e"
          [] line[i] = "S" -> "s"
          [] OTHER -> line[i]]

\* Faulty variant: any answer that begins with y is taken for a yes.
Confirmed_by_first_letter(line) ==
    /\ Strip(line) # << >>
    /\ Lower(Strip(line))[1] = "y"

\* confirm in ["y", "yes"]
Confirmed(line) == Lower(Strip(line)) \in { << "y" >>, << "y", "e", "s" >> }

-----------------------------------------------------------------------------
(* Transport client *)

\* What one requests.get can do: raise a RequestException, or return a
\* response with a status code and a body.
Raised == [kind |-> "exception", status_code |-> 0, body |-> MalformedBody]
Returned(status, body) == [kind |-> "response", status_code |-> status, body |-> body]

\* Status codes of the answers that are not 200.
OtherStatusCodes == { 204, 500 }

\* Faulty variant: any response is returned, whatever its status code.
add_attempt_returns_any_status(o) == o.kind = "response"

\* add_subdomain: the attempt returns its response to the caller.
add_attempt_returns(o) == o.kind = "response" /\ o.status_code = 200

\* Faulty variant: one attempt too many.
add_retries_once_more(n) == n <= max_retries

\* add_subdomain: after a failed attempt, the loop goes on.
add_retries(n) == n < max_retries

\* check_old_records: the attempt returns its response to the caller.
check_attempt_returns(o) == o.kind = "response" /\ o.status_code = 200

\* Faulty variant: one attempt too many.
check_retries_once_more(n) == n <= max_retries

\* check_old_records: after a failed attempt, the loop goes on.
check_retries(n) == n < max_retries

\* Query parameters every command carries.
BaseParams(cfg, command, s, t) ==
    [ApiUser |-> cfg.API_USER, ApiKey |-> cfg.API_KEY, UserName |-> cfg.USERNAME,
     Command |-> command, ClientIp |-> cfg.CLIENT_IP, SLD |-> s, TLD |-> t]

\* A request: its fixed parameters and its numbered ones, (name, i) -> value.
Request(base, indexed) == [base |-> base, indexed |-> indexed]
NoIndexed == [k \in {} |-> None]

-----------------------------------------------------------------------------
(* get_dns_records *)

get_hosts_params(cfg, s, t) == Request(BaseParams(cfg, getHosts, s, t), NoIndexed)

\* Faulty variant: Error elements are not looked for.
add_get_dns_records_ignoring_errors(cfg, body) ==
    IF ~body.wellformed THEN [raised |-> "MalformedResponse", hosts |-> << >>]
    ELSE LET root == strip_namespaces(body.nodes)
             found == FindAllPath(root, "DomainDNSGetHostsResult", "host")
         IN  [raised |-> None,
              hosts |-> [i \in 1..Len(found) |->
                  LET host == root[found[i]].attrib
                  IN  [HostName   |-> Get(host, "Name", None),
                       RecordType |-> Get(host, "Type", None),
                       Address    |-> Get(host, "Address", None),
                       MXPref     |-> Get(host, "MXPref", ""),
                       TTL        |-> Get(host, "TTL", cfg.DEFAULT_TTL)]]]

\* add_subdomain.get_dns_records, from the response on: the exception it
\* raises (or None) and the list it returns.
add_get_dns_records(cfg, body) ==
    IF ~body.wellformed THEN [raised |-> "MalformedResponse", hosts |-> << >>]
    ELSE LET root == strip_namespaces(body.nodes)
             errors == FindAll(root, "Error")
             found == FindAllPath(root, "DomainDNSGetHostsResult", "host")
         IN  IF errors # << >> THEN [raised |-> "ApiError", hosts |-> << >>]
             ELSE [raised |-> None,
                   hosts |-> [i \in 1..Len(found) |->
                       LET host == root[found[i]].attrib
                       IN  [HostName   |-> Get(host, "Name", None),
                            RecordType |-> Get(host, "Type", None),
                            Address    |-> Get(host, "Address", None),
                            MXPref     |-> Get(host, "MXPref", ""),
                            TTL        |-> Get(host, "TTL", cfg.DEFAULT_TTL)]]]

\* check_old_records.get_dns_records, from the response on.
check_get_dns_records(body) ==
    IF ~body.wellformed THEN [raised |-> "MalformedResponse", hosts |-> << >>]
    ELSE LET root == strip_namespaces(body.nodes)
             errors == FindAll(root, "Error")
             found == FindAllPath(root, "DomainDNSGetHostsResult", "host")
         IN  IF errors # << >> /\ Len(errors) > 0 /\ Truthy(root[errors[1]].text)
             THEN [raised |-> "ApiError", hosts |-> << >>]
             ELSE [raised |-> None,
                   hosts |-> [i \in 1..Len(found) |->
                       LET host == root[found[i]].attrib
                       IN  [HostName   |-> Get(host, "Name", None),
                            RecordType |-> Get(host, "Type", None),
                            Address    |-> Get(host, "Address", None),
                            MXPref     |-> Get(host, "MXPref", ""),
                            TTL        |-> Get(host, "TTL", None)]]]

-----------------------------------------------------------------------------
(* Reconciliation: main() of the write tool, step 5 *)

\* The filter of the list comprehension: the record stays.
keeps(r, sub) == ~(r.HostName = sub /\ r.RecordType = "A")

new_record(sub, ip, cfg) ==
    [HostName |-> sub, RecordType |-> "A", Address |-> ip, MXPref |-> "",
     TTL |-> cfg.DEFAULT_TTL]

\* Faulty variant: the new record is appended and nothing is removed.
reconcile_without_removal(existing, sub, ip, cfg) ==
    Append(existing, new_record(sub, ip, cfg))

\* Faulty variant: the new record is put first.
reconcile_new_first(existing, sub, ip, cfg) ==
    << new_record(sub, ip, cfg) >> \o SelectSeq(existing, LAMBDA r : keeps(r, sub))

\* Faulty variant: only the first A record at the name is removed.
reconcile_first_match_only(existing, sub, ip, cfg) ==
    LET hits == { i \in 1..Len(existing) : ~keeps(existing[i], sub) }
        first == IF hits = {} THEN 0 ELSE CHOOSE i \in hits : \A j \in hits : i <= j
    IN  Append(SubSeq(existing, 1, first - 1) \o SubSeq(existing, first + 1, Len(existing)),
               new_record(sub, ip, cfg))

\* updated_records as main() builds it from existing_records.
reconcile(existing, sub, ip, cfg) ==
    Append(SelectSeq(existing, LAMBDA r : keeps(r, sub)), new_record(sub, ip, cfg))

-----------------------------------------------------------------------------
(* set_dns_records *)

FieldNames == { "HostName", "RecordType", "Address", "MXPref", "TTL" }

\* Faulty variant: MXPref is sent as the record holds it.
set_hosts_indexed_plain_mxpref(cfg, hosts) ==
    [k \in FieldNames \X (1..Len(hosts)) |->
        LET host == hosts[k[2]]
        IN  CASE k[1] = "HostName"   -> host.HostName
              [] k[1] = "RecordType" -> host.RecordType
              [] k[1] = "Address"    -> host.Address
              [] k[1] = "MXPref"     -> host.MXPref
              [] k[1] = "TTL"        -> IF Truthy(host.TTL) THEN host.TTL
                                        ELSE cfg.DEFAULT_TTL]

\* The numbered parameters of the push, numbered from 1.
set_hosts_indexed(cfg, hosts) ==
    [k \in FieldNames \X (1..Len(hosts)) |->
        LET host == hosts[k[2]]
        IN  CASE k[1] = "HostName"   -> host.HostName
              [] k[1] = "RecordType" -> host.RecordType
              [] k[1] = "Address"    -> host.Address
              [] k[1] = "MXPref"     -> IF Truthy(host.MXPref) THEN host.MXPref ELSE "10"
              [] k[1] = "TTL"        -> IF Truthy(host.TTL) THEN host.TTL
                                        ELSE cfg.DEFAULT_TTL]

\* Faulty variant: every retry appends the new record once more.
set_hosts_params_growing(cfg, s, t, hosts) ==
    Request(BaseParams(cfg, setHosts, s, t),
            set_hosts_indexed(cfg,
                hosts \o [i \in 1..attempt |-> hosts[Len(hosts)]]))

\* Faulty variant: only the new record is sent.
set_hosts_params_delta(cfg, s, t, hosts) ==
    Request(BaseParams(cfg, setHosts, s, t),
            set_hosts_indexed(cfg, << hosts[Len(hosts)] >>))

set_hosts_params(cfg, s, t, hosts) ==
    Request(BaseParams(cfg, setHosts, s, t), set_hosts_indexed(cfg, hosts))

\* root.find(".//DomainDNSSetHostsResult"): index of the first one, 0 if none.
FindResult(root) ==
    LET all == FindAll(root, "DomainDNSSetHostsResult")
    IN  IF all = << >> THEN 0 ELSE all[1]

\* (not result): result is None, or an element without children.
not_result(root, result) == result = 0 \/ ~ElementTruth(root, result)

\* Faulty variant: the success flag is not read.
set_dns_records_ignoring_flag(body) ==
    IF ~body.wellformed THEN "MalformedResponse"
    ELSE LET root == strip_namespaces(body.nodes)
         IN  IF not_result(root, FindResult(root)) THEN "PushNotConfirmed" ELSE None

\* Faulty variant: a push that is not confirmed is reported as a transport
\* failure would be, and the caller goes on.
set_dns_records_swallowing(body) ==
    IF ~body.wellformed THEN "MalformedResponse" ELSE None

\* set_dns_records, from the response on: the exception it raises, or None.
set_dns_records(body) ==
    IF ~body.wellformed THEN "MalformedResponse"
    ELSE LET root == strip_namespaces(body.nodes)
             result == FindResult(root)
         IN  IF not_result(root, result)
                \/ Get(root[result].attrib, "IsSuccess", None) # "true"
             THEN "PushNotConfirmed"
             ELSE None

\* The record set the registrar stores for a setHosts request.
StoredRecords(req) ==
    LET n == Cardinality(DOMAIN req.indexed) \div Cardinality(FieldNames)
    IN  [i \in 1..n |->
            [HostName |-> req.indexed[<< "HostName", i >>],
             RecordType |-> req.indexed[<< "RecordType", i >>],
             Address |-> req.indexed[<< "Address", i >>],
             MXPref |-> req.indexed[<< "MXPref", i >>],
             TTL |-> req.indexed[<< "TTL", i >>]]]

-----------------------------------------------------------------------------
(* The registrar as the transport client meets it *)

\* The registrar reports the push as done: the answer holds a result element
\* whose success flag is the string "true".
ReportsSuccess(body) ==
    /\ body.wellformed
    /\ \E i \in 2..Len(body.nodes) :
          /\ body.nodes[i].tag \in { QName("DomainDNSSetHostsResult"),
                                     Plain("DomainDNSSetHostsResult") }
          /\ "IsSuccess" \in DOMAIN body.nodes[i].attrib
          /\ body.nodes[i].attrib["IsSuccess"] = "true"

\* One getHosts attempt: the network fails, or the registrar answers.
GetHostsOutcomes(z) ==
    { Raised }
    \cup { Returned(c, MalformedBody) : c \in OtherStatusCodes }
    \cup { Returned(200, b) : b \in GetHostsBodies(z) }

\* One setHosts attempt, and whether the registrar stored the records: it
\* stores them when it reports success, and may have stored them when its
\* answer was lost.
SetHostsOutcomes ==
    { [outcome |-> Raised, stored |-> st] : st \in BOOLEAN }
    \cup { [outcome |-> Returned(c, MalformedBody), stored |-> FALSE] : c \in OtherStatusCodes }
    \cup { [outcome |-> Returned(200, b), stored |-> ReportsSuccess(b)] : b \in SetHostsBodies }

NoResponse == [kind |-> "none", status_code |-> 0, body |-> MalformedBody]

-----------------------------------------------------------------------------
(* The run *)

Tools == { "add", "check" }

\* The value of environ while the .env is not observed.
Unobserved == [k \in EnvNames |-> None]

Init ==
    /\ tool \in Tools
    /\ pc = "load_config"
    /\ exit_status = -1
    /\ error = None
    /\ config = NoConfig
    /\ subdomain = None
    /\ sld = None
    /\ tld = None
    /\ ip_address = None
    /\ attempt = 0
    /\ outcomes = << >>
    /\ requests = << >>
    /\ get_response = NoResponse
    /\ set_response = NoResponse
    /\ retries_reported = 0
    /\ existing_records = << >>
    /\ updated_records = << >>
    /\ zone \in Zones
    /\ zone_at_fetch = << >>
    /\ environ = Unobserved
    /\ domain_str = << >>
    /\ ip_arg = None
    /\ answer = << >>
    /\ external_writes = 0
    /\ xml_tree = << >>
    /\ xml_root = << >>

\* Faulty variant: a failed push sends the run back to the fetch.
Exit_refetching(state, status, err) ==
    IF pc = "pushing" /\ state = "failed"
    THEN /\ pc' = "fetching"
         /\ UNCHANGED << exit_status, error >>
    ELSE /\ pc' = state
         /\ exit_status' = status
         /\ error' = err

\* sys.exit(status) after logging the error.
Exit(state, status, err) ==
    /\ pc' = state
    /\ exit_status' = status
    /\ error' = err

\* main(), step 2 of the write tool and step 1 of the inspection tool, with
\* the .env it finds.
LoadConfigWith(env) ==
    /\ pc = "load_config"
    /\ LET cfg == IF tool = "add" THEN add_load_config(env)
                  ELSE check_load_config(env)
       IN  IF MissingKeys(cfg) # {}
           THEN /\ Exit("rejected", 1, "ConfigError")
                /\ UNCHANGED config
           ELSE /\ config' = cfg
                /\ pc' = "parse_domain"
                /\ UNCHANGED << exit_status, error >>
    /\ UNCHANGED << tool, subdomain, sld, tld, ip_address, attempt, outcomes,
                    requests, get_response, set_response, retries_reported,
                    existing_records, updated_records, zone, zone_at_fetch >>
    /\ UNCHANGED apart

LoadConfig ==
    \E env \in Envs : LoadConfigWith(env) /\ UNCHANGED inputs

\* main(), step 3 of the write tool (with the choice of the IP) and step 2 of
\* the inspection tool, with the arguments of the command line.
ParseDomainWith(domain, ip) ==
    /\ pc = "parse_domain"
    /\ LET ext == Extract(domain)
           err == IF tool = "add" THEN add_parse_domain_error(ext)
                  ELSE check_parse_domain_error(ext)
       IN  IF err # None
           THEN /\ Exit("rejected", 1, err)
                /\ UNCHANGED << subdomain, sld, tld, ip_address >>
           ELSE /\ subdomain' = ext.subdomain
                /\ sld' = ext.domain
                /\ tld' = ext.suffix
                /\ ip_address' = IF tool = "add"
                                 THEN (IF Truthy(ip) THEN ip ELSE config.DEFAULT_IP)
                                 ELSE None
                /\ pc' = IF tool = "add" THEN "confirm" ELSE "fetching"
                /\ UNCHANGED << exit_status, error >>
    /\ UNCHANGED << tool, config, attempt, outcomes, requests, get_response,
                    set_response, retries_reported, existing_records,
                    updated_records, zone, zone_at_fetch >>
    /\ UNCHANGED apart

ParseDomain ==
    \E domain \in DomainInputs, ip \in IpArgs :
        ParseDomainWith(domain, ip) /\ UNCHANGED inputs

\* main() of the write tool: the confirmation prompt, with the line typed.
ConfirmWith(line) ==
    /\ tool = "add"
    /\ pc = "confirm"
    /\ IF ~Confirmed(line)
       THEN Exit("aborted", 0, None)
       ELSE /\ pc' = "fetching"
            /\ UNCHANGED << exit_status, error >>
    /\ UNCHANGED << tool, config, subdomain, sld, tld, ip_address, attempt,
                    outcomes, requests, get_response, set_response,
                    retries_reported, existing_records, updated_records,
                    zone, zone_at_fetch >>
    /\ UNCHANGED apart

Confirm ==
    \E line \in Answers : ConfirmWith(line) /\ UNCHANGED inputs

\* main(), step 4 of the write tool: one turn of the retry loop under
\* get_dns_records and, once a response is returned, the rest of
\* get_dns_records.
AddGetHostsAttempt ==
    /\ tool = "add"
    /\ pc = "fetching"
    /\ \E o \in GetHostsOutcomes(zone) :
          LET n == attempt + 1
              r == add_get_dns_records(config, o.body)
          IN  /\ attempt' = n
              /\ requests' = Append(requests, get_hosts_params(config, sld, tld))
              /\ outcomes' = Append(outcomes, o)
              /\ IF add_attempt_returns(o)
                 THEN /\ get_response' = o
                      /\ IF r.raised # None
                         THEN /\ Exit("failed", 1, r.raised)
                              /\ UNCHANGED << existing_records, zone_at_fetch >>
                         ELSE /\ existing_records' = r.hosts
                              /\ zone_at_fetch' = zone
                              /\ pc' = "reconciling"
                              /\ UNCHANGED << exit_status, error >>
                      /\ UNCHANGED retries_reported
                 ELSE /\ IF add_retries(n)
                         THEN UNCHANGED << pc, exit_status, error, retries_reported >>
                         ELSE /\ Exit("failed", 1, "TransportError")
                              /\ retries_reported' = max_retries
                      /\ UNCHANGED << get_response, existing_records, zone_at_fetch >>
    /\ UNCHANGED << tool, config, subdomain, sld, tld, ip_address,
                    set_response, updated_records, zone >>
    /\ UNCHANGED inputs
    /\ UNCHANGED apart

\* main(), step 5 of the write tool.
Reconcile ==
    /\ tool = "add"
    /\ pc = "reconciling"
    /\ updated_records' = reconcile(existing_records, subdomain, ip_address, config)
    /\ pc' = "pushing"
    /\ attempt' = 0
    /\ outcomes' = << >>
    /\ UNCHANGED << tool, exit_status, error, config, subdomain, sld, tld,
                    ip_address, requests, get_response, set_response,
                    retries_reported, existing_records, zone, zone_at_fetch >>
    /\ UNCHANGED inputs
    /\ UNCHANGED apart

\* main(), step 6 of the write tool: one turn of the retry loop under
\* set_dns_records and, once a response is returned, the rest of
\* set_dns_records.
SetHostsAttempt ==
    /\ tool = "add"
    /\ pc = "pushing"
    /\ \E so \in SetHostsOutcomes :
          LET n == attempt + 1
              o == so.outcome
              req == set_hosts_params(config, sld, tld, updated_records)
              raised == set_dns_records(o.body)
          IN  /\ attempt' = n
              /\ requests' = Append(requests, req)
              /\ outcomes' = Append(outcomes, o)
              /\ zone' = IF so.stored THEN StoredRecords(req) ELSE zone
              /\ IF add_attempt_returns(o)
                 THEN /\ set_response' = o
                      /\ IF raised # None
                         THEN Exit("failed", 1, raised)
                         ELSE Exit("done", 0, None)
                      /\ UNCHANGED retries_reported
                 ELSE /\ IF add_retries(n)
                         THEN UNCHANGED << pc, exit_status, error, retries_reported >>
                         ELSE /\ Exit("failed", 1, "TransportError")
                              /\ retries_reported' = max_retries
                      /\ UNCHANGED set_response
    /\ UNCHANGED << tool, config, subdomain, sld, tld, ip_address,
                    get_response, existing_records, updated_records,
                    zone_at_fetch >>
    /\ UNCHANGED inputs
    /\ UNCHANGED apart

\* main(), step 3 of the inspection tool: one turn of the retry loop under
\* get_dns_records and, once a response is returned, the rest of
\* get_dns_records.
CheckGetHostsAttempt ==
    /\ tool = "check"
    /\ pc = "fetching"
    /\ \E o \in GetHostsOutcomes(zone) :
          LET n == attempt + 1
              r == check_get_dns_records(o.body)
          IN  /\ attempt' = n
              /\ requests' = Append(requests, get_hosts_params(config, sld, tld))
              /\ outcomes' = Append(outcomes, o)
              /\ IF check_attempt_returns(o)
                 THEN /\ get_response' = o
                      /\ IF r.raised # None
                         THEN /\ Exit("failed", 1, r.raised)
                              /\ UNCHANGED << existing_records, zone_at_fetch >>
                         ELSE /\ existing_records' = r.hosts
                              /\ zone_at_fetch' = zone
                              /\ pc' = "printing"
                              /\ UNCHANGED << exit_status, error >>
                      /\ UNCHANGED retries_reported
                 ELSE /\ IF check_retries(n)
                         THEN UNCHANGED << pc, exit_status, error, retries_reported >>
                         ELSE /\ Exit("failed", 1, "TransportError")
                              /\ retries_reported' = max_retries
                      /\ UNCHANGED << get_response, existing_records, zone_at_fetch >>
    /\ UNCHANGED << tool, config, subdomain, sld, tld, ip_address,
                    set_response, updated_records, zone >>
    /\ UNCHANGED inputs
    /\ UNCHANGED apart

\* main(), step 4 of the inspection tool: print the records and return.
PrintRecords ==
    /\ tool = "check"
    /\ pc = "printing"
    /\ Exit("done", 0, None)
    /\ UNCHANGED << tool, config, subdomain, sld, tld, ip_address, attempt,
                    outcomes, requests, get_response, set_response,
                    retries_reported, existing_records, updated_records,
                    zone, zone_at_fetch >>
    /\ UNCHANGED inputs
    /\ UNCHANGED apart

Next ==
    \/ LoadConfig
    \/ ParseDomain
    \/ Confirm
    \/ AddGetHostsAttempt
    \/ Reconcile
    \/ SetHostsAttempt
    \/ CheckGetHostsAttempt
    \/ PrintRecords

Spec == Init /\ [][Next]_vars

-----------------------------------------------------------------------------
(* The run with its inputs observed *)

LoadConfigObserved ==
    \E env \in Envs :
        /\ LoadConfigWith(env)
        /\ environ' = env
        /\ UNCHANGED << domain_str, ip_arg, answer >>

ParseDomainObserved ==
    \E domain \in DomainInputs, ip \in IpArgs :
        /\ ParseDomainWith(domain, ip)
        /\ domain_str' = domain
        /\ ip_arg' = ip
        /\ UNCHANGED << environ, answer >>

ConfirmObserved ==
    \E line \in Answers :
        /\ ConfirmWith(line)
        /\ answer' = line
        /\ UNCHANGED << environ, domain_str, ip_arg >>

\* The runs that start from an empty zone.
InitObserved == Init /\ zone = << >>

NextObserved ==
    \/ LoadConfigObserved
    \/ ParseDomainObserved
    \/ ConfirmObserved
    \/ AddGetHostsAttempt
    \/ Reconcile
    \/ SetHostsAttempt
    \/ CheckGetHostsAttempt
    \/ PrintRecords

SpecObserved == InitObserved /\ [][NextObserved]_vars

-----------------------------------------------------------------------------
(* The run beside another writer of the zone *)

\* What another writer may make of the zone in one change.
ExternalEdits(z) ==
    { Append(z, rec) : rec \in RecordPool }
    \cup (IF z = << >> THEN {} ELSE { Tail(z) })

\* Someone else changes the zone between the tool's fetch and the end of its
\* push: the registrar has no lock to stop it.
ExternalWrite ==
    /\ tool = "add"
    /\ pc \in { "reconciling", "pushing" }
    /\ external_writes < MaxExternalWrites
    /\ \E z \in ExternalEdits(zone) : zone' = z
    /\ external_writes' = external_writes + 1
    /\ UNCHANGED << tool, pc, exit_status, error, config, subdomain, sld, tld,
                    ip_address, attempt, outcomes, requests, get_response,
                    set_response, retries_reported, existing_records,
                    updated_records, zone_at_fetch, xml_tree, xml_root >>
    /\ UNCHANGED inputs

\* The runs of the write tool on a zone of at most one record.
InitRace == Init /\ tool = "add" /\ Len(zone) <= 1

NextRace ==
    \/ LoadConfig
    \/ ParseDomain
    \/ Confirm
    \/ AddGetHostsAttempt
    \/ Reconcile
    \/ SetHostsAttempt
    \/ ExternalWrite

SpecRace == InitRace /\ [][NextRace]_vars

-----------------------------------------------------------------------------
(* The write run whose every step is eventually taken *)

NextWriteRun ==
    \/ LoadConfig
    \/ ParseDomain
    \/ Confirm
    \/ AddGetHostsAttempt
    \/ Reconcile
    \/ SetHostsAttempt

\* requests.get is called with timeout=30, so an attempt that is due returns
\* or raises; the code between two calls runs to its end.
SpecWriteRun ==
    /\ InitRace
    /\ [][NextWriteRun]_vars
    /\ WF_vars(AddGetHostsAttempt)
    /\ WF_vars(Reconcile)
    /\ WF_vars(SetHostsAttempt)

-----------------------------------------------------------------------------
(* strip_namespaces on documents of any shape *)

\* The tag names the tools query for.
LocalNames ==
    { "Error", "DomainDNSGetHostsResult", "host", "DomainDNSSetHostsResult" }

\* The tags the parser writes for a local name: unqualified, in the
\* registrar's namespace, or in a namespace whose URI holds a "{".
TagsOf(local) ==
    { Plain(local), QName(local), << "{", "urn:a", "{", "b", "}", local >> }

ParsedTags == UNION { TagsOf(local) : local \in LocalNames }

\* a is i or an ancestor of i.
RECURSIVE AncestorOrSelf(_, _, _)
AncestorOrSelf(parents, a, i) ==
    IF i = 0 THEN FALSE
    ELSE IF a = i THEN TRUE
    ELSE AncestorOrSelf(parents, a, parents[i])

\* Parent indices of a tree listed in document order.
Shapes(n) ==
    { parents \in [1..n -> 0..(n - 1)] :
        /\ parents[1] = 0
        /\ \A i \in 2..n : /\ parents[i] \in 1..(i - 1)
                           /\ AncestorOrSelf(parents, parents[i], i - 1) }

ParsedAttribs == { NoAttrib, [Name |-> "dev", IsSuccess |-> "true"] }

\* The document of n elements with these tags, parents and attributes.
Tree(n, tags, parents, attrib) ==
    [i \in 1..n |-> Element(tags[i], parents[i], attrib, None)]

\* root = ET.fromstring(resp.text): any document of at most MaxNodes elements.
FromString ==
    /\ xml_tree = << >>
    /\ \E n \in 1..MaxNodes :
          \E tags \in [1..n -> ParsedTags], parents \in Shapes(n),
             attrib \in ParsedAttribs :
              xml_tree' = Tree(n, tags, parents, attrib)
    /\ UNCHANGED << tool, pc, exit_status, error, config, subdomain, sld, tld,
                    ip_address, attempt, outcomes, requests, get_response,
                    set_response, retries_reported, existing_records,
                    updated_records, zone, zone_at_fetch, external_writes,
                    xml_root >>
    /\ UNCHANGED inputs

\* strip_namespaces(root)
StripNamespaces ==
    /\ xml_tree # << >>
    /\ xml_root = << >>
    /\ xml_root' = strip_namespaces(xml_tree)
    /\ UNCHANGED << tool, pc, exit_status, error, config, subdomain, sld, tld,
                    ip_address, attempt, outcomes, requests, get_response,
                    set_response, retries_reported, existing_records,
                    updated_records, zone, zone_at_fetch, external_writes,
                    xml_tree >>
    /\ UNCHANGED inputs

InitXml == Init /\ tool = "add" /\ zone = << >>

NextXml == FromString \/ StripNamespaces

SpecXml == InitXml /\ [][NextXml]_vars

-----------------------------------------------------------------------------
(* Properties of the reconciliation *)

\* Requests of the run that carry the given command.
RequestsOf(command) ==
    { i \in 1..Len(requests) : requests[i].base.Command = command }

\* The write tool has built updated_records.
Reconciled ==
    tool = "add" /\ (pc \in { "pushing", "done" } \/ RequestsOf(setHosts) # {})

\* Positions of the A records at the desired host name in a record list.
MatchesOf(recs) ==
    { i \in 1..Len(recs) : recs[i].HostName = subdomain /\ recs[i].RecordType = "A" }

\* Positions of the other records.
OthersOf(recs) == (1..Len(recs)) \ MatchesOf(recs)

\* C1 (single-A invariant): whatever the fetched list holds (no, one or
\* several A records at the desired host name), the record set built for the
\* push holds exactly one record with the desired host name and type "A",
\* and that record carries the desired address.
C1_SingleA ==
    Reconciled
        => /\ Cardinality(MatchesOf(updated_records)) = 1
           /\ \A i \in MatchesOf(updated_records) :
                 updated_records[i].Address = ip_address

\* The push set was built from a list with two A records at the host name.
C1_Witness ==
    /\ Reconciled
    /\ Cardinality(MatchesOf(existing_records)) >= 2
    /\ Cardinality(MatchesOf(updated_records)) = 1

\* C2 (reconcile output is kept ++ [newRecord]): every fetched record that is
\* not an A record at the desired host name is in the push set unmodified and
\* in its original relative order, the new record {host, A, address, "",
\* default TTL} is last, and nothing else is in the push set.
C2_KeptThenNew ==
    Reconciled
        => LET kept == OthersOf(existing_records)
               n == Cardinality(kept)
           IN  /\ Len(updated_records) = n + 1
               /\ \A i \in kept :
                     updated_records[Cardinality({ j \in kept : j <= i })]
                         = existing_records[i]
               /\ updated_records[n + 1] =
                     [HostName |-> subdomain, RecordType |-> "A",
                      Address |-> ip_address, MXPref |-> "",
                      TTL |-> config.DEFAULT_TTL]

\* The scenario [{dev, A, 1.1.1.1}, {www, A, 2.2.2.2}] with (dev, 9.9.9.9).
C2_Witness ==
    /\ Reconciled
    /\ existing_records = << HostRecord("dev", "A", "1.1.1.1", "10", "1800"),
                             HostRecord("www", "A", "2.2.2.2", "10", "60") >>
    /\ updated_records = << HostRecord("www", "A", "2.2.2.2", "10", "60"),
                            HostRecord("dev", "A", "9.9.9.9", "", "1800") >>

\* C3 (idempotence): reconciling the push set again, with the same host
\* name, address and default TTL, gives the same set of records.
C3_Idempotent ==
    Reconciled
        => Range(reconcile(updated_records, subdomain, ip_address, config))
               = Range(updated_records)

\* The push set was built by removing at least one record.
C3_Witness ==
    /\ Reconciled
    /\ MatchesOf(existing_records) # {}
    /\ OthersOf(existing_records) # {}
    /\ reconcile(updated_records, subdomain, ip_address, config) = updated_records

-----------------------------------------------------------------------------
(* Properties of the transport client *)

\* The attempt returned a response with status 200.
Is200(o) == o.kind = "response" /\ o.status_code = 200

\* The attempt returned a response with a 2xx status.
Is2xx(o) == o.kind = "response" /\ o.status_code >= 200 /\ o.status_code <= 299

\* The current call has ended: its caller, or the run, has moved on.
CallOver == pc \in { "reconciling", "printing", "done", "failed" }

\* The response the current call returned to its caller.
CallResponse == IF RequestsOf(setHosts) # {} THEN set_response ELSE get_response

\* C4 (retry exhaustion): one call makes at most 3 attempts; when every
\* attempt fails it makes exactly 3 and fails with a transport error that
\* reports 3; when two fail and the third succeeds it makes exactly 3 and
\* returns the third response; no attempt follows a successful one.
C4_RetryExhaustion ==
    /\ Len(outcomes) = attempt
    /\ attempt <= 3
    /\ \A i \in 1..Len(outcomes) : Is200(outcomes[i]) => i = Len(outcomes)
    /\ (CallOver /\ \A i \in 1..Len(outcomes) : ~Is200(outcomes[i]))
           => /\ Len(outcomes) = 3
              /\ error = "TransportError"
              /\ retries_reported = 3
    /\ (Len(outcomes) = 3 /\ Is200(outcomes[3]))
           => /\ CallOver
              /\ CallResponse = outcomes[3]
              /\ error # "TransportError"
    /\ (error = "TransportError") => (Len(outcomes) = 3 /\ pc = "failed")

\* Two failed attempts, then a third that succeeds and is returned.
C4_Witness ==
    /\ Len(outcomes) = 3
    /\ ~Is200(outcomes[1])
    /\ ~Is200(outcomes[2])
    /\ Is200(outcomes[3])
    /\ CallResponse = outcomes[3]

\* C5 as stated (retry trigger and shared budget): an attempt is successful
\* exactly when it returns a 2xx status, so a 2xx response ends the call and
\* is returned, and the call fails with a transport error only when no
\* attempt returned a 2xx status.
C5_Success2xx ==
    /\ \A i \in 1..Len(outcomes) :
          Is2xx(outcomes[i]) => (i = Len(outcomes) /\ CallOver /\ CallResponse = outcomes[i])
    /\ (error = "TransportError") => \A i \in 1..Len(outcomes) : ~Is2xx(outcomes[i])

\* C5 as amended: an attempt is successful exactly when it returns status
\* 200; an exception and any other status (other 2xx statuses included)
\* each use up one attempt of the same budget of 3, and the call fails with
\* a transport error exactly when none of its 3 attempts returned status 200.
C5_Success200 ==
    /\ \A i \in 1..Len(outcomes) :
          IF Is200(outcomes[i])
          THEN i = Len(outcomes) /\ CallOver /\ CallResponse = outcomes[i]
          ELSE CallResponse # outcomes[i] /\ (i < 3 => (i < Len(outcomes) \/ ~CallOver))
    /\ (error = "TransportError")
           <=> (Len(outcomes) = 3 /\ \A i \in 1..3 : ~Is200(outcomes[i]))

\* A call that is exhausted by a mix of the failure kinds: an exception, a
\* 5xx status and a 2xx status other than 200.
C5_Witness ==
    /\ error = "TransportError"
    /\ \E i \in 1..Len(outcomes) : outcomes[i].kind = "exception"
    /\ \E i \in 1..Len(outcomes) : outcomes[i].kind = "response" /\ outcomes[i].status_code = 500
    /\ \E i \in 1..Len(outcomes) : Is2xx(outcomes[i])

-----------------------------------------------------------------------------
(* Properties of the runs *)

\* The body holds an Error element below the root, namespaced or not.
ContainsError(body) ==
    /\ body.wellformed
    /\ \E i \in 2..Len(body.nodes) :
          body.nodes[i].tag \in { QName("Error"), Plain("Error") }

\* The fetch is over and did not confirm the zone's records: the transport
\* client gave up, or the body it returned is not XML or holds an Error.
FetchUnconfirmed ==
    \/ /\ get_response = NoResponse
       /\ Cardinality(RequestsOf(getHosts)) = 3
       /\ pc # "fetching"
    \/ /\ get_response # NoResponse
       /\ (~get_response.body.wellformed \/ ContainsError(get_response.body))

\* A step of the tool (it moves on or issues a request) that issues no
\* setHosts request.
StepWithoutPush ==
    /\ (pc' # pc \/ requests' # requests)
    /\ \A i \in 1..Len(requests') :
          i > Len(requests) => requests'[i].base.Command # setHosts

\* C6 (no push after an unconfirmed read): in the write tool, a fetch that
\* ends with a transport error, a body that is not XML or a body with an
\* Error element ends the run in Failed, with a non-zero exit status and no
\* setHosts request; and a step without a setHosts request leaves the zone
\* as it is.
C6_NoPushAfterUnconfirmedRead ==
    /\ [](tool = "add" /\ FetchUnconfirmed
             => /\ pc = "failed"
                /\ exit_status = 1
                /\ error \in { "TransportError", "MalformedResponse", "ApiError" }
                /\ RequestsOf(setHosts) = {})
    /\ [][tool = "add" /\ StepWithoutPush => zone' = zone]_vars

\* A fetch of the write tool that returned a body with an Error element.
C6_Witness ==
    /\ tool = "add"
    /\ get_response # NoResponse
    /\ ContainsError(get_response.body)
    /\ pc = "failed"
    /\ error = "ApiError"

\* C7 (Done only on confirmed push): the write tool reports success (exit
\* status 0 after a push) only if a setHosts request returned HTTP success
\* and its body holds the result element with success flag "true".
C7_DoneOnlyOnConfirmedPush ==
    (tool = "add" /\ (pc = "done" \/ (exit_status = 0 /\ RequestsOf(setHosts) # {})))
        => /\ pc = "done"
           /\ exit_status = 0
           /\ requests[Len(requests)].base.Command = setHosts
           /\ Is2xx(set_response)
           /\ ReportsSuccess(set_response.body)

\* The write tool is done after a push that needed a second attempt.
C7_Witness ==
    /\ tool = "add"
    /\ pc = "done"
    /\ Cardinality(RequestsOf(setHosts)) = 2
    /\ ReportsSuccess(set_response.body)

\* C8 (success-flag extraction): for every well-formed push response, the
\* push is treated as successful if and only if the body holds a result
\* element whose IsSuccess attribute is "true", with or without children.
C8_SuccessFlagExtraction ==
    (tool = "add" /\ set_response # NoResponse /\ set_response.body.wellformed)
        => (pc = "done" <=> ReportsSuccess(set_response.body))

\* The push response carries the success flag "false".
FlagFalse(body) ==
    /\ body.wellformed
    /\ \E i \in 2..Len(body.nodes) :
          /\ body.nodes[i].tag \in { QName("DomainDNSSetHostsResult"),
                                     Plain("DomainDNSSetHostsResult") }
          /\ "IsSuccess" \in DOMAIN body.nodes[i].attrib
          /\ body.nodes[i].attrib["IsSuccess"] = "false"

\* The Pushing phase has failed.
PushFailed == tool = "add" /\ pc = "failed" /\ RequestsOf(setHosts) # {}

\* Every getHosts request of the run precedes every setHosts request.
FetchesBeforePushes ==
    \A i \in RequestsOf(getHosts) : \A j \in RequestsOf(setHosts) : i < j

\* C9 as stated (a failed push is terminal and not retried): a push response
\* with HTTP success and success flag "false" ends the run in Failed
\* (PushNotConfirmed) with a non-zero exit status after exactly one setHosts
\* request, and no getHosts request follows a setHosts request.
C9_ExactlyOnePush ==
    /\ (tool = "add" /\ set_response # NoResponse /\ FlagFalse(set_response.body))
           => /\ pc = "failed"
              /\ error = "PushNotConfirmed"
              /\ exit_status = 1
              /\ Cardinality(RequestsOf(setHosts)) = 1
    /\ FetchesBeforePushes

\* C9 as amended: a push response with HTTP success and success flag "false"
\* ends the run in Failed (PushNotConfirmed) with a non-zero exit status;
\* the setHosts requests of the run are the attempts of that one call, the
\* answered one being the last (so exactly one when the first attempt is
\* answered); and once the Pushing phase has failed, by a transport error, a
\* malformed response or an unconfirmed push, the run issues no request.
C9_FailedPushIsTerminal ==
    /\ [](tool = "add" /\ set_response # NoResponse /\ FlagFalse(set_response.body)
             => /\ pc = "failed"
                /\ error = "PushNotConfirmed"
                /\ exit_status = 1
                /\ Cardinality(RequestsOf(setHosts)) = attempt
                /\ attempt <= 3
                /\ outcomes[attempt] = set_response
                /\ requests[Len(requests)].base.Command = setHosts)
    /\ [](PushFailed
             => /\ error \in { "TransportError", "MalformedResponse", "PushNotConfirmed" }
                /\ exit_status = 1
                /\ FetchesBeforePushes)
    /\ [][PushFailed => (requests' = requests /\ pc' = pc /\ exit_status' = 1)]_vars

\* The first push attempt was answered with success flag "false".
C9_Witness ==
    /\ tool = "add"
    /\ attempt = 1
    /\ set_response # NoResponse
    /\ FlagFalse(set_response.body)
    /\ pc = "failed"
    /\ error = "PushNotConfirmed"

\* C10 (the inspection tool never pushes): whatever the fetch does, the
\* inspection tool issues getHosts requests only, at most 3 of them, and its
\* steps leave the zone as it is.
C10_InspectionNeverPushes ==
    /\ [](tool = "check"
             => /\ RequestsOf(setHosts) = {}
                /\ RequestsOf(getHosts) = 1..Len(requests)
                /\ Len(requests) <= 3)
    /\ [][tool = "check" => zone' = zone]_vars

\* The inspection tool printed the records it got at its third attempt.
C10_Witness ==
    /\ tool = "check"
    /\ pc = "done"
    /\ Len(requests) = 3
    /\ zone # << >>

-----------------------------------------------------------------------------
(* Properties of the steps before the first request *)

\* The .env has been read.
ConfigLoaded == pc # "load_config"

\* The run ended with the fatal error err before any request.
RejectedWith(err) ==
    /\ pc = "rejected"
    /\ error = err
    /\ exit_status = 1
    /\ requests = << >>

\* Variables of the .env that have a fallback in load_config.
WithFallback == { "DEFAULT_TTL", "DEFAULT_IP" }

\* C11 as stated (configuration errors precede all network activity): in
\* the write tool, if any one of the seven configuration values is absent,
\* the run ends with a fatal configuration error, a non-zero exit status and
\* no request.
C11_AnyAbsentIsFatal ==
    (tool = "add" /\ ConfigLoaded /\ \E k \in EnvNames : environ[k] = None)
        => RejectedWith("ConfigError")

\* C11 as amended: in the write tool, if the API endpoint URL, the API user,
\* the API key, the account user name or the client IP is absent, the run
\* ends with a fatal configuration error, a non-zero exit status and no
\* request; an absent default TTL or default IP address is replaced by
\* "1800" or "1.2.3.4" and the run goes on; every configuration error comes
\* before any request.
C11_RequiredAbsentIsFatal ==
    (tool = "add" /\ ConfigLoaded)
        => /\ (\E k \in EnvNames \ WithFallback : environ[k] = None)
                  => RejectedWith("ConfigError")
           /\ (error = "ConfigError") => RejectedWith("ConfigError")
           /\ (/\ \A k \in EnvNames \ WithFallback : Truthy(environ[k])
               /\ \A k \in WithFallback : environ[k] # "")
                  => /\ error # "ConfigError"
                     /\ pc # "rejected" \/ requests = << >>
                     /\ config.DEFAULT_TTL =
                           (IF environ["DEFAULT_TTL"] = None THEN "1800"
                            ELSE environ["DEFAULT_TTL"])
                     /\ config.DEFAULT_IP =
                           (IF environ["DEFAULT_IP"] = None THEN "1.2.3.4"
                            ELSE environ["DEFAULT_IP"])

\* The write tool was started without its client IP.
C11_Witness ==
    /\ tool = "add"
    /\ environ["NAMECHEAP_CLIENT_IP"] = None
    /\ environ["NAMECHEAP_API_KEY"] # None
    /\ RejectedWith("ConfigError")

\* The command line has been read.
DomainParsed == domain_str # << >>

\* Lengths of the public suffixes the input ends with.
SuffixLengths(labels) ==
    { k \in 1..Len(labels) :
        SubSeq(labels, Len(labels) - k + 1, Len(labels)) \in PublicSuffixes }

\* The input has no public suffix, or is nothing but a public suffix.
InvalidInput(labels) ==
    SuffixLengths(labels) = {} \/ Len(labels) \in SuffixLengths(labels)

\* The input is a registrable domain with nothing before it.
BareInput(labels) ==
    /\ ~InvalidInput(labels)
    /\ Len(labels) - 1 \in SuffixLengths(labels)

\* C12 (domain validation by path): in both tools an input without a
\* registrable domain or a public suffix fails with InvalidDomain before any
\* request; an input without a subdomain fails with MissingSubdomain before
\* any request in the write tool, and is accepted by the inspection tool,
\* which goes on to fetch.
C12_DomainValidation ==
    DomainParsed
        => /\ InvalidInput(domain_str) => RejectedWith("InvalidDomain")
           /\ (BareInput(domain_str) /\ tool = "add")
                  => RejectedWith("MissingSubdomain")
           /\ (BareInput(domain_str) /\ tool = "check")
                  => /\ pc \in { "fetching", "printing", "done", "failed" }
                     /\ subdomain = ""
                     /\ error \notin { "InvalidDomain", "MissingSubdomain" }
                     /\ pc # "fetching" => RequestsOf(getHosts) # {}
           /\ (~InvalidInput(domain_str) /\ ~BareInput(domain_str))
                  => /\ pc # "rejected"
                     /\ Truthy(subdomain)

\* The inspection tool fetched the zone of a bare domain.
C12_Witness ==
    /\ tool = "check"
    /\ domain_str = << "example", "com" >>
    /\ subdomain = ""
    /\ RequestsOf(getHosts) # {}

-----------------------------------------------------------------------------
(* Properties of the run beside another writer *)

\* The fetch was answered with the list of the zone as it then was.
FetchedTheZone ==
    /\ get_response # NoResponse
    /\ get_response.body = Body(HostsDocument(TRUE, zone_at_fetch))

\* The zone of the fetch with the A records at the desired name replaced by
\* the new one, as the registrar stores it (the new record's empty MXPref
\* is sent as "10").
ReconciledZone ==
    Append(SelectSeq(zone_at_fetch,
                     LAMBDA r : ~(r.HostName = subdomain /\ r.RecordType = "A")),
           HostRecord(subdomain, "A", ip_address, "10", config.DEFAULT_TTL))

\* C13 (unguarded race on the shared zone): between its fetch and its push
\* the tool issues no request, so it neither locks nor re-checks; a push
\* that succeeds leaves the zone equal to the set reconciled from the fetch,
\* whether or not someone changed the zone in between (such a change is
\* lost), and in particular when nobody did.
C13_StaleOverwrite ==
    /\ (tool = "add" /\ pc \in { "reconciling", "pushing", "done" })
           => /\ FetchesBeforePushes
              /\ Cardinality(RequestsOf(getHosts)) <= 3
              /\ (pc = "reconciling" \/ (pc = "pushing" /\ attempt = 0))
                     => requests[Len(requests)].base.Command = getHosts
    /\ (tool = "add" /\ pc = "done" /\ FetchedTheZone)
           => zone = ReconciledZone

\* The push succeeded after someone else had added a record, which is lost.
C13_Witness ==
    /\ tool = "add"
    /\ pc = "done"
    /\ FetchedTheZone
    /\ external_writes = 1
    /\ zone_at_fetch = << HostRecord("www", "A", "2.2.2.2", "10", "60") >>
    /\ zone = << HostRecord("www", "A", "2.2.2.2", "10", "60"),
                 HostRecord("dev", "A", "9.9.9.9", "10", "1800") >>

-----------------------------------------------------------------------------
(* Properties of strip_namespaces *)

\* The local name of a tag as the parser wrote it: its last token.
LocalName(tag) == tag[Len(tag)]

\* The elements below the root whose local name is the given one.
NamedBelowRoot(local) ==
    { i \in 2..Len(xml_tree) : LocalName(xml_tree[i].tag) = local }

\* C14 (namespace stripping): after normalization no tag of the tree holds
\* a namespace delimiter and every tag is its original local name, at every
\* depth; parents, attributes and text are as before; and the plain queries
\* .//Error, .//DomainDNSSetHostsResult and .//DomainDNSGetHostsResult/host
\* find exactly the elements that carry those local names in any namespace.
C14_NamespaceStripping ==
    xml_root # << >> =>
        /\ Len(xml_root) = Len(xml_tree)
        /\ \A i \in 1..Len(xml_tree) :
              /\ \A j \in 1..Len(xml_root[i].tag) :
                    xml_root[i].tag[j] \notin { "{", "}" }
              /\ xml_root[i].tag = << LocalName(xml_tree[i].tag) >>
              /\ xml_root[i].parent = xml_tree[i].parent
              /\ xml_root[i].attrib = xml_tree[i].attrib
              /\ xml_root[i].text = xml_tree[i].text
        /\ \A local \in { "Error", "DomainDNSSetHostsResult" } :
              Range(FindAll(xml_root, local)) = NamedBelowRoot(local)
        /\ Range(FindAllPath(xml_root, "DomainDNSGetHostsResult", "host"))
              = { i \in NamedBelowRoot("host") :
                    xml_tree[i].parent \in NamedBelowRoot("DomainDNSGetHostsResult") }

\* A chain of three elements, each in a namespace, two namespaces mixed,
\* has been normalized and the path query finds the host.
C14_Witness ==
    /\ Len(xml_root) = 3
    /\ xml_tree[1].tag = QName("Error")
    /\ xml_tree[2].tag = << "{", "urn:a", "{", "b", "}", "DomainDNSGetHostsResult" >>
    /\ xml_tree[3].tag = QName("host")
    /\ xml_tree[2].parent = 1
    /\ xml_tree[3].parent = 2
    /\ FindAllPath(xml_tree, "DomainDNSGetHostsResult", "host") = << >>
    /\ FindAllPath(xml_root, "DomainDNSGetHostsResult", "host") = << 3 >>

-----------------------------------------------------------------------------
(* Properties of the setHosts request *)

\* Every setHosts request sent carries one group of five parameters for each
\* record of updated_records, numbered 1..N, group i holding record i, with
\* MXPref "10" for a missing or empty mxPref and the default TTL for a ttl
\* among the given values.
SerializedWith(defaultedTtls) ==
    \A i \in RequestsOf(setHosts) :
        LET indexed == requests[i].indexed
            N == Len(updated_records)
        IN  /\ DOMAIN indexed = FieldNames \X (1..N)
            /\ \A j \in 1..N :
                  LET rec == updated_records[j]
                  IN  /\ indexed[<< "HostName", j >>] = rec.HostName
                      /\ indexed[<< "RecordType", j >>] = rec.RecordType
                      /\ indexed[<< "Address", j >>] = rec.Address
                      /\ indexed[<< "MXPref", j >>]
                            = (IF rec.MXPref \in { None, "" } THEN "10"
                               ELSE rec.MXPref)
                      /\ indexed[<< "TTL", j >>]
                            = (IF rec.TTL \in defaultedTtls
                               THEN config.DEFAULT_TTL ELSE rec.TTL)

\* C15 as stated (setHosts serialization): groups 1..N without gaps, group i
\* the i-th record, MXPref "10" when absent or empty, and TTL the default
\* only when the record's ttl is absent, its own value otherwise.
C15_TtlDefaultOnlyWhenAbsent == SerializedWith({ None })

\* C15 amended: as stated, but the default TTL is also sent for a record
\* whose ttl is the empty string.
C15_Serialization == SerializedWith({ None, "" })

\* The four records reconciled from the sparse answer have been sent: the
\* second without MXPref goes out with "10", the third with an empty TTL
\* goes out with the default, the first keeps its own values.
C15_Witness ==
    /\ tool = "add"
    /\ subdomain = "api"
    /\ get_response # NoResponse
    /\ get_response.body = Body(SparseHostsDocument)
    /\ RequestsOf(setHosts) # {}
    /\ LET indexed == requests[Len(requests)].indexed
       IN  /\ DOMAIN indexed = FieldNames \X (1..4)
           /\ indexed[<< "TTL", 1 >>] = "60"
           /\ indexed[<< "MXPref", 2 >>] = "10"
           /\ updated_records[3].TTL = ""
           /\ indexed[<< "TTL", 3 >>] = "1800"
           /\ indexed[<< "MXPref", 4 >>] = "10"

-----------------------------------------------------------------------------
(* Properties of the registrar's error reports *)

\* C16 (registrar-reported errors are fatal on every fetch): in either
\* tool, once a getHosts answer that is XML and holds an Error element at
\* any depth, whatever its text, has been returned, the fetch has failed
\* with ApiError, no record list was kept and the exit status is not zero.
C16_ReportedErrorsAreFatal ==
    (get_response # NoResponse /\ ContainsError(get_response.body))
        => /\ pc = "failed"
           /\ error = "ApiError"
           /\ exit_status = 1
           /\ existing_records = << >>

-----------------------------------------------------------------------------
(* Properties of the fetched host records *)

\* The body lists a host element without a Name attribute or with an empty
\* one.
HasNamelessHost(body) ==
    /\ body.wellformed
    /\ \E i \in 2..Len(body.nodes) :
          /\ body.nodes[i].tag \in { QName("host"), Plain("host") }
          /\ Get(body.nodes[i].attrib, "Name", None) \in { None, "" }

\* C17 (malformed host records are rejected before reconciliation): in the
\* write tool a getHosts answer with a host element that has no or an empty
\* Name makes the fetch fail, no record without a host name is among the
\* reconciled records, and every HostName{i} of every setHosts request is a
\* non-empty string.
C17_NamelessHostsRejected ==
    tool = "add" =>
        /\ (get_response # NoResponse /\ HasNamelessHost(get_response.body))
              => pc = "failed"
        /\ \A j \in 1..Len(updated_records) :
              updated_records[j].HostName \notin { None, "" }
        /\ \A i \in RequestsOf(setHosts) :
              \A k \in DOMAIN requests[i].indexed :
                  k[1] = "HostName" => requests[i].indexed[k] \notin { None, "" }

-----------------------------------------------------------------------------
(* Properties of the order of a write run *)

\* The moves of a write run: the steps before the fetch (Idle), which may
\* end the run before it starts, then Fetching, Reconciling, Pushing, Done,
\* with Failed entered from Fetching or Pushing.
WriteRunMoves ==
    { << "load_config", "parse_domain" >>, << "load_config", "rejected" >>,
      << "parse_domain", "confirm" >>, << "parse_domain", "rejected" >>,
      << "confirm", "fetching" >>, << "confirm", "aborted" >>,
      << "fetching", "reconciling" >>, << "fetching", "failed" >>,
      << "reconciling", "pushing" >>,
      << "pushing", "done" >>, << "pushing", "failed" >> }

\* C18 (ordering and termination of a write run): with every attempt
\* returning or failing, a run that is fetching eventually is Done or
\* Failed; the run moves only along Idle, Fetching, Reconciling, Pushing,
\* Done, and into Failed only from Fetching or Pushing; every getHosts
\* request precedes every setHosts request; and nothing changes, so no
\* request is sent, once the run is Done or Failed.
C18_OrderAndTermination ==
    /\ [][ /\ pc' # pc => << pc, pc' >> \in WriteRunMoves
           /\ pc \notin { "done", "failed" } ]_vars
    /\ [](FetchesBeforePushes)
    /\ (pc = "fetching") ~> (pc \in { "done", "failed" })

\* A run is Done after two fetch attempts and three push attempts.
C18_Witness ==
    /\ tool = "add"
    /\ pc = "done"
    /\ Cardinality(RequestsOf(getHosts)) = 2
    /\ Cardinality(RequestsOf(setHosts)) = 3

-----------------------------------------------------------------------------
(* Properties of the confirmation *)

\* The answers that read "y" or "yes" once trimmed and lower-cased.
YesAnswers ==
    { << "y" >>, << "Y", "E", "S" >>, << " ", "y", "e", "s", " " >> }

\* The prompt of the write tool has been answered.
Answered ==
    tool = "add" /\ pc \notin { "load_config", "parse_domain", "confirm", "rejected" }

\* C19 (declined confirmation makes no network call): in the write tool no
\* request is sent before the prompt is answered; after an answer other
\* than "y" or "yes" (trimmed, lower-cased) the run has ended with exit
\* status 0 and has sent no request; and requests are only ever sent in a
\* run whose answer was "y" or "yes".
C19_DeclinedMakesNoCall ==
    /\ (tool = "add" /\ ~Answered) => requests = << >>
    /\ (Answered /\ answer \notin YesAnswers)
          => /\ pc = "aborted"
             /\ exit_status = 0
             /\ requests = << >>
    /\ (tool = "add" /\ requests # << >>) => answer \in YesAnswers

\* The prompt was answered "y es" and the run ended without a request.
C19_Witness ==
    /\ tool = "add"
    /\ answer = << "y", " ", "e", "s" >>
    /\ pc = "aborted"
    /\ exit_status = 0
    /\ requests = << >>

-----------------------------------------------------------------------------
(* Properties of the push retries *)

\* C20 (push retries resend one fixed record set): in a write run a
\* getHosts response is returned at most once and no getHosts request is
\* sent after it, updated_records is assigned once, every setHosts request
\* equals every other and is the serialization of the set reconciled from
\* the records of that one fetch, no getHosts request lies between or after
\* setHosts requests, and there are at most 3 requests of each kind.
C20_FixedRecordSet ==
    /\ [](tool = "add" =>
            /\ \A i \in RequestsOf(setHosts) :
                  /\ \A j \in RequestsOf(setHosts) : requests[i] = requests[j]
                  /\ requests[i] = set_hosts_params(config, sld, tld,
                         reconcile(existing_records, subdomain, ip_address, config))
                  /\ existing_records
                        = add_get_dns_records(config, get_response.body).hosts
            /\ FetchesBeforePushes
            /\ Cardinality(RequestsOf(getHosts)) <= 3
            /\ Cardinality(RequestsOf(setHosts)) <= 3)
    /\ [][tool = "add" =>
            /\ get_response' # get_response => get_response = NoResponse
            /\ (get_response # NoResponse /\ requests' # requests)
                  => requests'[Len(requests')].base.Command = setHosts
            /\ updated_records' # updated_records
                  => (updated_records = << >> /\ pc = "reconciling")]_vars

\* Three setHosts requests were sent after a fetch that took three
\* attempts, while someone else changed the zone.
C20_Witness ==
    /\ tool = "add"
    /\ Cardinality(RequestsOf(getHosts)) = 3
    /\ Cardinality(RequestsOf(setHosts)) = 3
    /\ external_writes = 1
    /\ zone_at_fetch # << >>

====
